---------------------------- MODULE Spec2Model ----------------------------
(***************************************************************************)
(* Model of public/asset/js/color-palette.js: adjustOklchLightness reads a *)
(* CSS custom property of the root element, matches it against a regular   *)
(* expression, adjusts the lightness by a percentage, clamps it and         *)
(* formats the result with toFixed(4).                                      *)
(*                                                                         *)
(* Text is a sequence of one-character strings.  A JavaScript Number is a   *)
(* record [nan, m, e]: NaN, or the decimal m / 10^e computed exactly; the   *)
(* binary rounding of IEEE doubles, which can move a result that lies       *)
(* exactly half way between two four-decimal numerals, is not modelled, and *)
(* the values drawn stay below the 10^21 at which toFixed changes notation. *)
(***************************************************************************)
EXTENDS Integers, Sequences, FiniteSets, TLC

VARIABLES
  style,     \* the computed style of the root element: property name -> value
  console,   \* what console.error has received, oldest first
  result,    \* what the last call returned
  lastName,  \* cssVariableName of the last call
  lastPct,   \* percentageModification of the last call
  history    \* the calls made, oldest first, each with what it returned

vars == <<style, console, result, lastName, lastPct, history>>

-----------------------------------------------------------------------------
(* Characters and character classes                                        *)

Digits == <<"0", "1", "2", "3", "4", "5", "6", "7", "8", "9">>

\* \d of the regular expression
Digit == {"0", "1", "2", "3", "4", "5", "6", "7", "8", "9"}

DigitVal(c) == (CHOOSE i \in 1..10 : Digits[i] = c) - 1

\* [\d.] of the regular expression
DigitOrDot == Digit \cup {"."}

\* \s of the regular expression, and the white space String.prototype.trim removes
WhiteSpace == {" ", "\t", "\n"}

\* the first index j >= i of s such that s[j] is not in the class (Len(s)+1 if none)
RECURSIVE RunEnd(_, _, _)
RunEnd(s, i, class) ==
  IF i <= Len(s) /\ s[i] \in class THEN RunEnd(s, i + 1, class) ELSE i

\* the last index j <= i of s such that s[j] is not white space (0 if none)
RECURSIVE LastNonSpace(_, _)
LastNonSpace(s, i) ==
  IF i >= 1 /\ s[i] \in WhiteSpace THEN LastNonSpace(s, i - 1) ELSE i

\* String.prototype.trim
trim(s) ==
  LET b == RunEnd(s, 1, WhiteSpace)
      e == IF b > Len(s) THEN Len(s) ELSE LastNonSpace(s, Len(s))
  IN  SubSeq(s, b, e)

-----------------------------------------------------------------------------
(* Numbers                                                                 *)

Pow10(k) == 10 ^ k

NaN == [nan |-> TRUE, m |-> 0, e |-> 0]

Num(m, e) == [nan |-> FALSE, m |-> m, e |-> e]

\* m / 10^e rewritten with e2 >= e decimals
Rescale(x, e2) == x.m * Pow10(e2 - x.e)

MaxE(x, y) == IF x.e >= y.e THEN x.e ELSE y.e

\* x * y
NumMul(x, y) == IF x.nan \/ y.nan THEN NaN ELSE Num(x.m * y.m, x.e + y.e)

\* x - y
NumSub(x, y) ==
  IF x.nan \/ y.nan THEN NaN
  ELSE Num(Rescale(x, MaxE(x, y)) - Rescale(y, MaxE(x, y)), MaxE(x, y))

\* x / 100
NumDiv100(x) == IF x.nan THEN NaN ELSE Num(x.m, x.e + 2)

\* x < y of JavaScript: false when either is NaN
NumLess(x, y) ==
  /\ ~x.nan
  /\ ~y.nan
  /\ Rescale(x, MaxE(x, y)) < Rescale(y, MaxE(x, y))

\* x and y are the same number
NumEq(x, y) ==
  /\ ~x.nan
  /\ ~y.nan
  /\ Rescale(x, MaxE(x, y)) = Rescale(y, MaxE(x, y))

NumLeq(x, y) == NumLess(x, y) \/ NumEq(x, y)

\* Math.min: NaN if either argument is NaN
MathMin(x, y) == IF x.nan \/ y.nan THEN NaN ELSE IF NumLess(y, x) THEN y ELSE x

\* Math.max: NaN if either argument is NaN
MathMax(x, y) == IF x.nan \/ y.nan THEN NaN ELSE IF NumLess(x, y) THEN y ELSE x

-----------------------------------------------------------------------------
(* parseFloat and Number.prototype.toFixed                                 *)

\* the value of a run of decimal digits
RECURSIVE DigitsVal(_)
DigitsVal(s) ==
  IF Len(s) = 0 THEN 0
  ELSE 10 * DigitsVal(SubSeq(s, 1, Len(s) - 1)) + DigitVal(s[Len(s)])

\* parseFloat: skips leading white space, then reads the longest prefix that is
\* a decimal literal (sign, digits, at most one point, digits) and ignores the
\* rest; NaN when that prefix has no digit.  Exponents are not read here: no
\* text that reaches parseFloat in this model carries one.
parseFloat(s) ==
  LET b    == RunEnd(s, 1, WhiteSpace)
      neg  == b <= Len(s) /\ s[b] = "-"
      i0   == IF b <= Len(s) /\ s[b] \in {"-", "+"} THEN b + 1 ELSE b
      i1   == RunEnd(s, i0, Digit)
      dot  == i1 <= Len(s) /\ s[i1] = "."
      i2   == IF dot THEN RunEnd(s, i1 + 1, Digit) ELSE i1
      int  == SubSeq(s, i0, i1 - 1)
      frac == IF dot THEN SubSeq(s, i1 + 1, i2 - 1) ELSE <<>>
      mag  == DigitsVal(int) * Pow10(Len(frac)) + DigitsVal(frac)
  IN  IF Len(int) = 0 /\ Len(frac) = 0 THEN NaN
      ELSE Num(IF neg THEN 0 - mag ELSE mag, Len(frac))

\* the decimal digits of a natural number
RECURSIVE NatToString(_)
NatToString(n) ==
  IF n < 10 THEN <<Digits[n + 1]>>
  ELSE NatToString(n \div 10) \o <<Digits[(n % 10) + 1]>>

\* n written with exactly k digits, zero padded on the left
RECURSIVE PadDigits(_, _)
PadDigits(n, k) ==
  IF k = 0 THEN <<>>
  ELSE PadDigits(n \div 10, k - 1) \o <<Digits[(n % 10) + 1]>>

\* toFixed that drops the digits after the f-th instead of rounding
toFixed_Truncating(x, f) ==
  IF x.nan THEN <<"N", "a", "N">>
  ELSE LET mag == IF x.m < 0 THEN 0 - x.m ELSE x.m
           n   == IF x.e <= f THEN mag * Pow10(f - x.e)
                  ELSE mag \div Pow10(x.e - f)
       IN  (IF x.m < 0 THEN <<"-">> ELSE <<>>)
             \o NatToString(n \div Pow10(f))
             \o (IF f = 0 THEN <<>> ELSE <<".">> \o PadDigits(n % Pow10(f), f))

\* Number.prototype.toFixed(f) for numbers below 10^21: "NaN" for NaN; else the
\* integer n nearest to x * 10^f (the larger one on a tie, taken on |x|),
\* written with f digits after the point and a "-" when x < 0.
toFixed(x, f) ==
  IF x.nan THEN <<"N", "a", "N">>
  ELSE LET mag == IF x.m < 0 THEN 0 - x.m ELSE x.m
           n   == IF x.e <= f THEN mag * Pow10(f - x.e)
                  ELSE (mag + 5 * Pow10(x.e - f - 1)) \div Pow10(x.e - f)
       IN  (IF x.m < 0 THEN <<"-">> ELSE <<>>)
             \o NatToString(n \div Pow10(f))
             \o (IF f = 0 THEN <<>> ELSE <<".">> \o PadDigits(n % Pow10(f), f))

-----------------------------------------------------------------------------
(* The regular expression /oklch\(\s*([\d.]+)\s+([\d.]+)\s+([\d.]+)\s*\)/   *)

null == [kind |-> "null", value |-> <<>>]

String(s) == [kind |-> "string", value |-> s]

\* the literal lit occurs in s at index i
LitAt(s, i, lit) ==
  /\ i + Len(lit) - 1 <= Len(s)
  /\ SubSeq(s, i, i + Len(lit) - 1) = lit

\* The attempt of the expression at index i.  The classes \s, [\d.] and ")" are
\* pairwise disjoint, so each greedy run ends where the only possible match
\* ends and backtracking finds nothing more.
MatchAt(s, i) ==
  LET a0 == i + 6
      a1 == RunEnd(s, a0, WhiteSpace)
      a2 == RunEnd(s, a1, DigitOrDot)
      a3 == RunEnd(s, a2, WhiteSpace)
      a4 == RunEnd(s, a3, DigitOrDot)
      a5 == RunEnd(s, a4, WhiteSpace)
      a6 == RunEnd(s, a5, DigitOrDot)
      a7 == RunEnd(s, a6, WhiteSpace)
      ok == /\ LitAt(s, i, <<"o", "k", "l", "c", "h", "(">>)
            /\ a2 > a1
            /\ a3 > a2
            /\ a4 > a3
            /\ a5 > a4
            /\ a6 > a5
            /\ a7 <= Len(s)
            /\ s[a7] = ")"
  IN  IF ok
      THEN [ok |-> TRUE, g1 |-> SubSeq(s, a1, a2 - 1),
            g2 |-> SubSeq(s, a3, a4 - 1), g3 |-> SubSeq(s, a5, a6 - 1)]
      ELSE [ok |-> FALSE, g1 |-> <<>>, g2 |-> <<>>, g3 |-> <<>>]

\* String.prototype.match with the expression (no g flag, not anchored): the
\* match at the leftmost index at which the expression matches, or no match
RECURSIVE MatchFrom(_, _)
MatchFrom(s, i) ==
  IF i > Len(s) THEN [ok |-> FALSE, g1 |-> <<>>, g2 |-> <<>>, g3 |-> <<>>]
  ELSE IF LitAt(s, i, <<"o", "k", "l", "c", "h", "(">>) /\ MatchAt(s, i).ok
       THEN MatchAt(s, i)
       ELSE MatchFrom(s, i + 1)

oklchRegexMatch(s) == MatchFrom(s, 1)

-----------------------------------------------------------------------------
(* adjustOklchLightness                                                    *)

FixedDigits == 4

\* a diagnostic that does not say which property failed
Diagnostic_WithoutName(cssVariableName) ==
  <<"Invalid OKLCH format or CSS variable not found.">>

\* the text console.error receives
Diagnostic(cssVariableName) ==
  <<"Invalid OKLCH format or CSS variable \"", cssVariableName, "\" not found.">>

\* getComputedStyle(document.documentElement).getPropertyValue(name)
getPropertyValue(cssVariableName) == style[cssVariableName]

\* the operands of the subtraction exchanged
AdjustLightness_Swapped(lightness, numericPercentage) ==
  NumSub(NumMul(lightness, numericPercentage), lightness)

\* lightness -= lightness * numericPercentage
AdjustLightness(lightness, numericPercentage) ==
  NumSub(lightness, NumMul(lightness, numericPercentage))

\* the clamp without its lower bound
Clamp01_NoFloor(lightness) == MathMin(Num(1, 0), lightness)

\* Math.max(0, Math.min(1, lightness))
Clamp01(lightness) == MathMax(Num(0, 0), MathMin(Num(1, 0), lightness))

\* chroma and hue written in each other's place
FormatOklch_HueChromaSwapped(lightness, chroma, hue) ==
  <<"o", "k", "l", "c", "h", "(">>
    \o toFixed(lightness, FixedDigits) \o <<" ">>
    \o toFixed(hue, FixedDigits) \o <<" ">>
    \o toFixed(chroma, FixedDigits) \o <<")">>

\* `oklch(${lightness.toFixed(4)} ${chroma.toFixed(4)} ${hue.toFixed(4)})`
FormatOklch(lightness, chroma, hue) ==
  <<"o", "k", "l", "c", "h", "(">>
    \o toFixed(lightness, FixedDigits) \o <<" ">>
    \o toFixed(chroma, FixedDigits) \o <<" ">>
    \o toFixed(hue, FixedDigits) \o <<")">>

\* The call: ret is the value returned, log the diagnostics written to
\* console.error during the call.
adjustOklchLightness(cssVariableName, percentageModification) ==
  LET oklchValue == trim(getPropertyValue(cssVariableName))
      match      == oklchRegexMatch(oklchValue)
      lightness0 == parseFloat(match.g1)
      chroma     == parseFloat(match.g2)
      hue        == parseFloat(match.g3)
      numericPercentage == NumDiv100(parseFloat(percentageModification))
      lightness1 == AdjustLightness(lightness0, numericPercentage)
      lightness2 == Clamp01(lightness1)
  IN  IF ~match.ok
      THEN [ret |-> null, log |-> <<Diagnostic(cssVariableName)>>]
      ELSE [ret |-> String(FormatOklch(lightness2, chroma, hue)), log |-> <<>>]

-----------------------------------------------------------------------------
(* The values the custom property can hold                                 *)

\* the values documented for a custom property holding an oklch colour
ExampleTexts ==
  { <<"o", "k", "l", "c", "h", "(", "0", ".", "7", " ", "0", ".", "1", "5", " ", "2", "5", "0", ")">>,
    <<" ", " ", "o", "k", "l", "c", "h", "(", "0", ".", "5", " ", "0", ".", "1", " ", "3", "0", ")", " ", " ">>,
    <<"r", "g", "b", "(", "2", "5", "5", ",", "0", ",", "0", ")">>,
    <<"o", "k", "l", "c", "h", "(", "0", ".", "9", " ", "0", ".", "2", " ", "1", "0", ")">>,
    <<"o", "k", "l", "c", "h", "(", "0", ".", "1", " ", "0", ".", "0", "5", " ", "5", ")">> }

\* texts the expression matches: bounds of the lightness range, values that the
\* four-decimal rendering rounds, white space of every permitted kind
AcceptedTexts ==
  { <<"o", "k", "l", "c", "h", "(", "0", " ", "0", " ", "0", ")">>,
    <<"o", "k", "l", "c", "h", "(", "1", ".", "5", " ", "0", ".", "1", " ", "3", "0", ")">>,
    <<"o", "k", "l", "c", "h", "(", "0", ".", "0", "0", "0", "1", " ", "0", ".", "1", " ", "3", "0", ")">>,
    <<"o", "k", "l", "c", "h", "(", "0", ".", "0", "0", "0", "0", "6", " ", "0", ".", "1", " ", "3", "0", ")">>,
    <<"o", "k", "l", "c", "h", "(", "0", ".", "5", "0", "0", "0", "4", " ", "0", ".", "1", "2", "3", "4", "6", " ", "3", "5", "9", ".", "9", "9", "9", "9", "6", ")">>,
    <<"o", "k", "l", "c", "h", "(", ".", "5", " ", "1", ".", " ", "3", "0", ")">>,
    <<"o", "k", "l", "c", "h", "(", " ", " ", "0", ".", "5", " ", " ", " ", "0", ".", "1", " ", " ", "3", "0", " ", " ", ")">>,
    <<"o", "k", "l", "c", "h", "(", "0", ".", "5", "\t", "0", ".", "1", "\t", "3", "0", ")">>,
    <<"\t", "o", "k", "l", "c", "h", "(", "0", ".", "2", "5", " ", "0", ".", "3", " ", "1", "2", "0", ")", "\t", " ">> }

\* texts with a component that is not a decimal numeral
MalformedNumberTexts ==
  { <<"o", "k", "l", "c", "h", "(", "-", "0", ".", "5", " ", "0", ".", "1", " ", "3", "0", ")">>,
    <<"o", "k", "l", "c", "h", "(", "0", ".", "5", " ", "0", ".", "1", " ", "-", "3", "0", ")">>,
    <<"o", "k", "l", "c", "h", "(", "1", "e", "2", " ", "0", ".", "1", " ", "3", "0", ")">>,
    <<"o", "k", "l", "c", "h", "(", "5", "0", "%", " ", "0", ".", "1", " ", "3", "0", ")">>,
    <<"o", "k", "l", "c", "h", "(", "1", ".", "2", ".", "3", " ", "0", ".", "1", " ", "3", "0", ")">>,
    <<"o", "k", "l", "c", "h", "(", "0", ".", "5", " ", "0", ".", ".", "1", " ", "3", "0", ")">>,
    <<"o", "k", "l", "c", "h", "(", ".", " ", "0", ".", "1", " ", "3", "0", ")">>,
    <<"o", "k", "l", "c", "h", "(", "0", ".", "5", " ", ".", " ", "3", "0", ")">>,
    <<"o", "k", "l", "c", "h", "(", "x", " ", "0", ".", "1", " ", "3", "0", ")">> }

\* texts that are not one oklch( ) term with three components
MalformedShapeTexts ==
  { <<>>,
    <<"o", "k", "l", "c", "h", " ", "0", ".", "5", " ", "0", ".", "1", " ", "3", "0">>,
    <<"o", "k", "l", "c", "h", "(", "0", ".", "5", " ", "0", ".", "1", " ", "3", "0">>,
    <<"o", "k", "l", "c", "h", "(", "0", ".", "5", " ", "0", ".", "1", ")">>,
    <<"o", "k", "l", "c", "h", "(", "0", ".", "5", " ", "0", ".", "1", " ", "3", "0", " ", "/", " ", "0", ".", "5", ")">>,
    <<"o", "k", "l", "c", "h", "(", "0", ".", "5", ",", "0", ".", "1", ",", "3", "0", ")">>,
    <<"o", "k", "l", "a", "b", "(", "0", ".", "5", " ", "0", ".", "1", " ", "3", "0", ")">>,
    <<"O", "K", "L", "C", "H", "(", "0", ".", "5", " ", "0", ".", "1", " ", "3", "0", ")">>,
    <<"x", "o", "k", "l", "c", "h", "(", "0", ".", "5", " ", "0", ".", "1", " ", "3", "0", ")">>,
    <<"o", "k", "l", "c", "h", "(", "0", ".", "5", " ", "0", ".", "1", " ", "3", "0", ")", " ", "x">> }

Texts == ExampleTexts \cup AcceptedTexts \cup MalformedNumberTexts \cup MalformedShapeTexts

\* the percentages passed, as parseFloat reads them (ToString of the number)
Percentages ==
  { <<"-", "5", "0", "0">>,
    <<"-", "2", "0">>,
    <<"0">>,
    <<"1", "0">>,
    <<"1", "0", "0", "0">> }

\* the custom property that is set, and one that no style sheet defines:
\* getPropertyValue answers the empty string for it
Names == {"--primary-color", "--not-defined"}

MaxCalls == 3

-----------------------------------------------------------------------------
(* The state machine                                                       *)

TypeOK ==
  /\ style \in [Names -> Texts \cup {<<>>}]
  /\ console \in Seq({Diagnostic(n) : n \in Names})
  /\ result.kind \in {"none", "null", "string"}
  /\ lastName \in Names \cup {"none"}
  /\ lastPct \in Percentages \cup {<<>>}
  /\ Len(history) <= MaxCalls
  /\ Len(console) <= Len(history)

Init ==
  /\ \E t \in Texts :
       style = [n \in Names |-> IF n = "--primary-color" THEN t ELSE <<>>]
  /\ console = <<>>
  /\ result = [kind |-> "none", value |-> <<>>]
  /\ lastName = "none"
  /\ lastPct = <<>>
  /\ history = <<>>

\* a call that stores the adjusted colour back into the property it read
Call_WritesBack(cssVariableName, percentageModification) ==
  LET out == adjustOklchLightness(cssVariableName, percentageModification)
  IN  /\ Len(history) < MaxCalls
      /\ result' = out.ret
      /\ console' = console \o out.log
      /\ lastName' = cssVariableName
      /\ lastPct' = percentageModification
      /\ history' = Append(history, [name |-> cssVariableName,
                                      pct  |-> percentageModification,
                                      ret  |-> result'])
      /\ style' = IF out.ret.kind = "string"
                  THEN [style EXCEPT ![cssVariableName] = out.ret.value]
                  ELSE style

\* one call adjustOklchLightness(cssVariableName, percentageModification)
Call(cssVariableName, percentageModification) ==
  LET out == adjustOklchLightness(cssVariableName, percentageModification)
  IN  /\ Len(history) < MaxCalls
      /\ result' = out.ret
      /\ console' = console \o out.log
      /\ lastName' = cssVariableName
      /\ lastPct' = percentageModification
      /\ history' = Append(history, [name |-> cssVariableName,
                                      pct  |-> percentageModification,
                                      ret  |-> result'])
      /\ UNCHANGED style

Next == \E n \in Names, p \in Percentages : Call(n, p)

Spec == Init /\ [][Next]_vars

-----------------------------------------------------------------------------
(* Reading a call and its result                                           *)

Called == Len(history) > 0

\* the text the last call resolved, trimmed
LastText == trim(style[lastName])

\* the groups the expression captured in it
LastMatch == oklchRegexMatch(LastText)

\* the first index j >= i of s that holds a space (Len(s)+1 if none)
RECURSIVE SpaceFrom(_, _)
SpaceFrom(s, i) ==
  IF i <= Len(s) /\ s[i] # " " THEN SpaceFrom(s, i + 1) ELSE i

\* the three components of a returned string: the text between "oklch(" and
\* the first space, between the first and the second space, and between the
\* second space and the last character
OutLightness(v) == SubSeq(v, 7, SpaceFrom(v, 7) - 1)

OutChroma(v) ==
  LET sp1 == SpaceFrom(v, 7)
  IN  SubSeq(v, sp1 + 1, SpaceFrom(v, sp1 + 1) - 1)

OutHue(v) ==
  LET sp1 == SpaceFrom(v, 7)
  IN  SubSeq(v, SpaceFrom(v, sp1 + 1) + 1, Len(v) - 1)

\* an unsigned decimal numeral with exactly four digits after the point
IsFixed4(s) ==
  /\ Len(s) >= 6
  /\ s[Len(s) - 4] = "."
  /\ \A k \in 1..Len(s) : k # Len(s) - 4 => s[k] \in Digit

\* a run of digits with at most one decimal point and at least one digit
IsDecimalNumeral(s) ==
  /\ Len(s) > 0
  /\ \A k \in 1..Len(s) : s[k] \in DigitOrDot
  /\ Cardinality({k \in 1..Len(s) : s[k] = "."}) <= 1
  /\ \E k \in 1..Len(s) : s[k] \in Digit

\* s is, from its first to its last character, "oklch(" then three runs of
\* digits and points separated by white space, then ")"
IsOklchForm(s) ==
  /\ LitAt(s, 1, <<"o", "k", "l", "c", "h", "(">>)
  /\ LET b1 == RunEnd(s, 7, WhiteSpace)
         e1 == RunEnd(s, b1, DigitOrDot)
         b2 == RunEnd(s, e1, WhiteSpace)
         e2 == RunEnd(s, b2, DigitOrDot)
         b3 == RunEnd(s, e2, WhiteSpace)
         e3 == RunEnd(s, b3, DigitOrDot)
         rp == RunEnd(s, e3, WhiteSpace)
     IN  /\ b1 < e1 /\ e1 < b2 /\ b2 < e2 /\ e2 < b3 /\ b3 < e3
         /\ rp = Len(s)
         /\ s[rp] = ")"

Zero == Num(0, 0)

One == Num(1, 0)

-----------------------------------------------------------------------------
(* Claims                                                                  *)

\* C1: a call whose resolved, trimmed text is not of the form oklch(a b c)
\* (empty, missing parenthesis, non-numeric component, a function name other
\* than exactly oklch) returns null.
C1_NullUnlessOklchForm ==
  Called /\ ~IsOklchForm(LastText) => result = null

\* C2: the lightness component of every returned string is a number within [0, 1].
C2_LightnessWithinUnitInterval ==
  Called /\ result.kind = "string" =>
    /\ NumLeq(Zero, parseFloat(OutLightness(result.value)))
    /\ NumLeq(parseFloat(OutLightness(result.value)), One)

\* C3: every returned string is "oklch(" l " " c " " h ")" where l, c and h are
\* unsigned decimal numerals with exactly four digits after the point.
C3_ResultShape ==
  Called /\ result.kind = "string" =>
    /\ LitAt(result.value, 1, <<"o", "k", "l", "c", "h", "(">>)
    /\ result.value[Len(result.value)] = ")"
    /\ IsFixed4(OutLightness(result.value))
    /\ IsFixed4(OutChroma(result.value))
    /\ IsFixed4(OutHue(result.value))

C5_ChromaHuePassedThrough ==
  LET m == LastMatch
  IN  Called /\ m.ok =>
        /\ OutChroma(result.value) = toFixed(parseFloat(m.g2), FixedDigits)
        /\ OutHue(result.value) = toFixed(parseFloat(m.g3), FixedDigits)
        /\ \A k \in 1..Len(history) :
             history[k].name = lastName =>
               /\ OutChroma(history[k].ret.value) = OutChroma(result.value)
               /\ OutHue(history[k].ret.value) = OutHue(result.value)

\* two calls on one text with different percentages: the lightness differs,
\* chroma and hue are those of the text
C5_Witness ==
  /\ Len(history) >= 2
  /\ result.kind = "string"
  /\ history[1].name = lastName
  /\ history[1].pct # lastPct
  /\ OutLightness(history[1].ret.value) # OutLightness(result.value)
  /\ OutHue(result.value) = <<"2", "5", "0", ".", "0", "0", "0", "0">>
  /\ OutChroma(result.value) = <<"0", ".", "1", "5", "0", "0">>

\* C6: with percentage 0 and input lightness L within [0, 1], the lightness
\* of the result is L rendered to four decimals, so within 0.00005 of L.
C6_IdentityAtZero ==
  LET m   == LastMatch
      L   == parseFloat(m.g1)
      out == parseFloat(OutLightness(result.value))
  IN  Called /\ NumEq(parseFloat(lastPct), Zero) /\ m.ok
             /\ NumLeq(Zero, L) /\ NumLeq(L, One) =>
        /\ OutLightness(result.value) = toFixed(L, FixedDigits)
        /\ NumLeq(NumSub(out, L), Num(5, 5))
        /\ NumLeq(NumSub(L, out), Num(5, 5))

\* percentage 0 on a lightness with more than four decimals
C6_Witness ==
  /\ Called
  /\ NumEq(parseFloat(lastPct), Zero)
  /\ LastMatch.ok
  /\ LastMatch.g1 = <<"0", ".", "0", "0", "0", "0", "6">>
  /\ OutLightness(result.value) = <<"0", ".", "0", "0", "0", "1">>

\* C7: a call whose text is not accepted writes exactly one diagnostic, which
\* contains the requested name, and returns null; a call whose text is
\* accepted writes none and returns a string.
C7_OneDiagnosticIffRejected ==
  [][LET accepted == oklchRegexMatch(trim(style'[lastName'])).ok
     IN  /\ ~accepted =>
              /\ Len(console') = Len(console) + 1
              /\ SubSeq(console', 1, Len(console)) = console
              /\ \E k \in 1..Len(console'[Len(console')]) :
                    console'[Len(console')][k] = lastName'
              /\ result' = null
         /\ accepted =>
              /\ console' = console
              /\ result'.kind = "string"]_vars

\* a rejected call between two accepted ones: one diagnostic, naming the
\* undefined property
C7_Witness ==
  /\ Len(history) = 3
  /\ history[1].ret.kind = "string"
  /\ history[2].ret = null
  /\ history[2].name = "--not-defined"
  /\ result.kind = "string"
  /\ console = <<Diagnostic("--not-defined")>>

\* C8: no call changes the property values, and so calls with the same name
\* and percentage, which find the same property values, return the same result
\* whatever calls were made in between.
C8_NothingRetainedNothingWritten ==
  [][/\ style' = style
     /\ \A j, k \in 1..Len(history') :
          /\ history'[j].name = history'[k].name
          /\ history'[j].pct = history'[k].pct
          => history'[j].ret = history'[k].ret]_vars

\* the same successful call made before and after a different call
C8_Witness ==
  /\ Len(history) = 3
  /\ history[1].name = history[3].name
  /\ history[1].pct = history[3].pct
  /\ history[2].pct # history[1].pct
  /\ history[2].ret.kind = "string"
  /\ history[2].ret # history[1].ret
  /\ history[3].ret.kind = "string"
  /\ history[3].ret = history[1].ret

\* max(0, min(1, L - L * p / 100)), from the numbers alone
ExpectedLightness(L, p) ==
  LET scaled == NumDiv100(NumMul(L, NumSub(Num(100, 0), p)))
  IN  IF NumLess(scaled, Zero) THEN Zero
      ELSE IF NumLess(One, scaled) THEN One
      ELSE scaled

\* C9: for an accepted text with numbers (L, C, H) and a percentage p the
\* result is max(0, min(1, L - L*p/100)), C and H rendered to four decimals,
\* white space around the text being ignored; the four documented examples
\* give the documented strings.
C9_ResultIsClampedAdjustedLightness ==
  Called =>
    /\ LET m == LastMatch
           L == parseFloat(m.g1)
           C == parseFloat(m.g2)
           H == parseFloat(m.g3)
           p == parseFloat(lastPct)
       IN  m.ok /\ ~L.nan /\ ~C.nan /\ ~H.nan =>
             result = String(<<"o", "k", "l", "c", "h", "(">>
                               \o toFixed(ExpectedLightness(L, p), 4) \o <<" ">>
                               \o toFixed(C, 4) \o <<" ">>
                               \o toFixed(H, 4) \o <<")">>)
    /\ /\ style[lastName] = <<"o", "k", "l", "c", "h", "(", "0", ".", "7", " ", "0", ".", "1", "5", " ", "2", "5", "0", ")">>
           /\ lastPct = <<"1", "0">>
         => result = String(<<"o", "k", "l", "c", "h", "(", "0", ".", "6", "3", "0", "0", " ", "0", ".", "1", "5", "0", "0", " ", "2", "5", "0", ".", "0", "0", "0", "0", ")">>)
    /\ /\ style[lastName] = <<" ", " ", "o", "k", "l", "c", "h", "(", "0", ".", "5", " ", "0", ".", "1", " ", "3", "0", ")", " ", " ">>
           /\ lastPct = <<"-", "2", "0">>
         => result = String(<<"o", "k", "l", "c", "h", "(", "0", ".", "6", "0", "0", "0", " ", "0", ".", "1", "0", "0", "0", " ", "3", "0", ".", "0", "0", "0", "0", ")">>)
    /\ /\ style[lastName] = <<"o", "k", "l", "c", "h", "(", "0", ".", "9", " ", "0", ".", "2", " ", "1", "0", ")">>
           /\ lastPct = <<"1", "0", "0", "0">>
         => result = String(<<"o", "k", "l", "c", "h", "(", "0", ".", "0", "0", "0", "0", " ", "0", ".", "2", "0", "0", "0", " ", "1", "0", ".", "0", "0", "0", "0", ")">>)
    /\ /\ style[lastName] = <<"o", "k", "l", "c", "h", "(", "0", ".", "1", " ", "0", ".", "0", "5", " ", "5", ")">>
           /\ lastPct = <<"-", "5", "0", "0">>
         => result = String(<<"o", "k", "l", "c", "h", "(", "0", ".", "6", "0", "0", "0", " ", "0", ".", "0", "5", "0", "0", " ", "5", ".", "0", "0", "0", "0", ")">>)

\* the documented example whose lightness goes below 0 and is clamped
C9_Witness ==
  /\ Called
  /\ style[lastName] = <<"o", "k", "l", "c", "h", "(", "0", ".", "9", " ", "0", ".", "2", " ", "1", "0", ")">>
  /\ lastPct = <<"1", "0", "0", "0">>
  /\ result = String(<<"o", "k", "l", "c", "h", "(", "0", ".", "0", "0", "0", "0", " ", "0", ".", "2", "0", "0", "0", " ", "1", "0", ".", "0", "0", "0", "0", ")">>)

\* C10: a call returns a string only when each component the expression took
\* is a run of digits with at most one decimal point and at least one digit;
\* a sign, an exponent, a percent sign or a comma in the text gives null.
C10_OnlyDecimalNumeralsAccepted ==
  Called =>
    /\ result.kind = "string" =>
         /\ IsDecimalNumeral(LastMatch.g1)
         /\ IsDecimalNumeral(LastMatch.g2)
         /\ IsDecimalNumeral(LastMatch.g3)
    /\ (\E k \in 1..Len(LastText) : LastText[k] \in {"-", "+", "e", "%", ","})
         => result = null

=============================================================================
